---- MODULE Spec2Model ----
(***************************************************************************)
(* A model of the Zephyr Scale / Jira client of ts_planning_tool:          *)
(* ZephyrInterface (zephyr_interface.py), the command line functions that  *)
(* call it (cli.py), and the upstream services they query.                 *)
(*                                                                         *)
(* Spec: one call is in flight at a time.  A call runs from its entry to   *)
(* its first network await (Invoke / CliInvoke), and then from each        *)
(* response to the next await or to its return or raise (Receive).         *)
(* SpecConcurrent: several coroutines call the same interface and          *)
(* interleave at their awaits.                                             *)
(***************************************************************************)
EXTENDS Integers, Sequences, FiniteSets, TLC

VARIABLES
    zapi,       \* the ZephyrInterface object a caller constructed directly
    call,       \* the call in progress (or the last one): operation and arguments
    pc,         \* "idle" | "waiting" (at a network await) | "done"
    frame,      \* the method whose request is outstanding
    values,     \* the local `values` of get_test_cycle
    result,     \* what the call returned or raised
    requests,   \* the requests this call has issued, in order
    responses,  \* the responses this call has received, in order
    sessions,   \* ClientSessions currently open
    opened,     \* ClientSessions this call has opened so far
    printed,    \* what the command line function printed
    unreleased, \* responses obtained from a session and not released
    history,    \* the status URLs that earlier calls have requested
    tasks       \* the coroutines that call the interface concurrently

vars == <<zapi, call, pc, frame, values, result, requests, responses, sessions, opened,
          printed, unreleased, history, tasks>>

----------------------------------------------------------------------------
\* Bounds of the model.

\* start_at ranges over 0..MaxStartAt
MaxStartAt == 4
\* max_results ranges over 1..MaxMaxResults
MaxMaxResults == 3
\* an upstream page of test cycles holds 0..MaxCycles cycles
MaxCycles == 2
\* the coroutines that call one interface concurrently are 1..MaxTasks
MaxTasks == 2
\* the ids given to get_project and get_status include 0..MaxId
MaxId == 10
\* a test case name and a version in a URL have 1..MaxSegmentLen characters
MaxSegmentLen == 2

----------------------------------------------------------------------------
\* JSON values, as the json module decodes them: None, str, int, dict (with
\* its keys in insertion order) and list.

None == [t |-> "null"]
Str(s) == [t |-> "str", s |-> s]
Num(n) == [t |-> "int", n |-> n]
Obj(keys, get) == [t |-> "obj", keys |-> keys, get |-> get]
List(items) == [t |-> "list", items |-> items]
Bool(b) == [t |-> "bool", b |-> b]
\* a str spelled out as the sequence of its characters
Chars(cs) == [t |-> "chars", c |-> cs]
\* a tuple
Tuple(items) == [t |-> "tuple", items |-> items]

\* key in d.keys()
HasKey(d, k) == d.t = "obj" /\ k \in DOMAIN d.get

\* v[k] for a str key k: [ok, v] or the exception Python raises.
Subscript(v, k) ==
    IF v.t = "obj"
    THEN IF k \in DOMAIN v.get
         THEN [ok |-> TRUE, v |-> v.get[k]]
         ELSE [ok |-> FALSE, type |-> "KeyError"]
    ELSE [ok |-> FALSE, type |-> "TypeError"]

\* (mutant) an assignment that moves the key to the end of the dict
SetItemMovingLast(d, k, x) ==
    Obj(Append(SelectSeq(d.keys, LAMBDA e : e # k), k),
        [kk \in (DOMAIN d.get) \cup {k} |-> IF kk = k THEN x ELSE d.get[kk]])

\* d[k] = x on a dict: an existing key keeps its place, a new one goes last.
SetItem(d, k, x) ==
    Obj(IF k \in DOMAIN d.get THEN d.keys ELSE Append(d.keys, k),
        [kk \in (DOMAIN d.get) \cup {k} |-> IF kk = k THEN x ELSE d.get[kk]])

\* f"{v}" : str(v).
FormatStr(v) ==
    CASE v.t = "str" -> v.s
      [] v.t = "int" -> ToString(v.n)
      [] v.t = "null" -> "None"
      [] OTHER -> "<object>"

\* (mutant) an id rendered as a float
FormatDFloat(v) ==
    CASE v.t = "int" -> [ok |-> TRUE, s |-> ToString(v.n) \o ".0"]
      [] v.t = "str" -> [ok |-> FALSE, type |-> "ValueError"]
      [] OTHER -> [ok |-> FALSE, type |-> "TypeError"]

\* f"{v:d}" : decimal digits of an int; any other type raises.
FormatD(v) ==
    CASE v.t = "int" -> [ok |-> TRUE, s |-> ToString(v.n)]
      [] v.t = "str" -> [ok |-> FALSE, type |-> "ValueError"]
      [] OTHER -> [ok |-> FALSE, type |-> "TypeError"]

----------------------------------------------------------------------------
\* Outcomes of a call.

NoResult == [kind |-> "none"]
Ok(v) == [kind |-> "ok", value |-> v]
\* An exception: its type, the HTTP status it carries (0: none) and the
\* response body text it carries ("": none).
Err(type, status, text) == [kind |-> "error", type |-> type, status |-> status, text |-> text]

----------------------------------------------------------------------------
\* Configuration.

ZEPHYR_BASE_URL == "https://api.zephyrscale.smartbear.com/v2/"
JIRA_BASE_URL == "https://rubinobs.atlassian.net/rest/api/2/"

Tokens == {None, Str("token")}
Usernames == {None, Str("user")}

\* ZephyrInterface.__init__: stores what it is given, checks nothing.
ZephyrInterface(jira_api_token, jira_username, zephyr_api_token) ==
    [jira_api_token |-> jira_api_token,
     jira_base_url |-> JIRA_BASE_URL,
     jira_username |-> jira_username,
     zephyr_api_token |-> zephyr_api_token,
     zephyr_base_url |-> ZEPHYR_BASE_URL]

Interfaces ==
    { ZephyrInterface(j, u, z) : j \in Tokens, u \in Usernames, z \in Tokens }

\* The environment a command line process runs in.
Envs == [ZEPHYR_API_TOKEN : Tokens, JIRA_API_TOKEN : Tokens, JIRA_USERNAME : Usernames]

\* setup_zephyr_interface: the interface built from the environment, or the
\* ValueError of the first variable that is not set.
setup_zephyr_interface(env) ==
    IF env.ZEPHYR_API_TOKEN = None \/ env.JIRA_API_TOKEN = None \/ env.JIRA_USERNAME = None
    THEN [ok |-> FALSE, err |-> Err("ValueError", 0, "")]
    ELSE [ok |-> TRUE,
          zapi |-> ZephyrInterface(env.JIRA_API_TOKEN, env.JIRA_USERNAME, env.ZEPHYR_API_TOKEN)]

----------------------------------------------------------------------------
\* Calls.

\* The methods class ZephyrInterface defines.
Methods ==
    {"extract_test_case_from_test_execution", "get_test_case", "get_test_case_steps",
     "get_test_cycle", "get_test_cycles", "get_test_execution",
     "get_test_execution_steps", "get_test_executions", "get_user_name",
     "get_project", "get_status", "get_statuses"}

\* The parameters of each method that a keyword argument can name.
ParamNames(op) ==
    CASE op = "get_test_case" -> {"test_case_key"}
      [] op = "get_test_case_steps" -> {"test_case_key"}
      [] op = "get_test_cycle" -> {"test_cycle_key"}
      [] op = "get_test_cycles" -> {"cycle_keys", "max_results", "start_at", "project_key"}
      [] op = "get_test_execution" -> {"test_execution_key"}
      [] op = "get_test_execution_steps" -> {"test_execution_key"}
      [] op = "get_test_executions" -> {"test_cycle_key", "max_results"}
      [] op = "get_user_name" -> {"account_id"}
      [] op = "get_project" -> {"project_id"}
      [] op = "get_status" -> {"status_id"}
      [] op = "get_statuses" -> {"status_type", "max_results"}
      [] OTHER -> {}

\* The fidelity modes the command line offers (cli.py, choices of --parse).
Modes == {"raw", "full", "simple"}

\* max_results when the caller gives none.
DefaultMaxResults == 20

\* A call: the method `op` called on interface `self` with first positional
\* argument `arg` and the keyword arguments named in `kw`.  cli is NotCli for
\* a direct call, and for a command line call the environment and the parsed
\* options of the process.
NotCli == [t |-> "null"]
MkCall(cli, self, op, arg, kw, parse, max_results, start_at, cycle_keys, only_last) ==
    [cli |-> cli, self |-> self, op |-> op, arg |-> arg, kw |-> kw,
     parse |-> parse, max_results |-> max_results, start_at |-> start_at,
     cycle_keys |-> cycle_keys, project_key |-> "BLOCK", only_last |-> only_last]

\* The fidelity mode a call asks for: the value of parse, when it passes one.
ModeOf(c) == IF "parse" \in c.kw THEN c.parse ELSE "unspecified"

----------------------------------------------------------------------------
\* Requests.

\* headers = {"Authorization": f"Bearer {self.zephyr_api_token}", ...} and
\* aiohttp.ClientSession(raise_for_status=True).get(url, headers, params)
ZephyrRequest(self, endpoint, params) ==
    [url |-> self.zephyr_base_url \o endpoint,
     auth |-> [scheme |-> "Bearer", user |-> "", secret |-> FormatStr(self.zephyr_api_token)],
     params |-> params,
     raise_for_status |-> TRUE]

\* aiohttp.ClientSession(auth=BasicAuth(f"{self.jira_username}@lsst.org",
\* self.jira_api_token)).get(url, params)
JiraRequest(self, endpoint, params) ==
    [url |-> self.jira_base_url \o endpoint,
     auth |-> [scheme |-> "Basic", user |-> FormatStr(self.jira_username) \o "@lsst.org",
               secret |-> FormatStr(self.jira_api_token)],
     params |-> params,
     raise_for_status |-> FALSE]

\* A query parameter value aiohttp can encode: a str or an int.  Anything
\* else (None, a dict) makes session.get raise TypeError before it sends.
QueryValueOk(v) == v.t \in {"str", "int"}

\* What a method does up to its first await: it opens a session and sends a
\* request; or it raises before it opens a session; or it raises inside the
\* session it opened (which the `async with` then closes).
Send(req) == [tag |-> "send", req |-> req, opens |-> 1]
Raise(type) == [tag |-> "raise", err |-> Err(type, 0, ""), opens |-> 0]
RaiseInSession(type) == [tag |-> "raise", err |-> Err(type, 0, ""), opens |-> 1]

\* (mutant) get_user_name without its credential check
BeginUserNameUnchecked(self, account_id) ==
    IF ~QueryValueOk(account_id)
    THEN RaiseInSession("TypeError")
    ELSE Send(JiraRequest(self, "user", << <<"accountId", account_id>> >>))

\* get_user_name up to its await: the credential check, then the request.
BeginUserName(self, account_id) ==
    IF self.jira_api_token = None
    THEN Raise("ValueError")
    ELSE IF ~QueryValueOk(account_id)
         THEN RaiseInSession("TypeError")
         ELSE Send(JiraRequest(self, "user", << <<"accountId", account_id>> >>))

\* (mutant) get_test_cycles without its pagination check
BeginTestCyclesUnchecked(self, c) ==
    Send(ZephyrRequest(self, "testcycles",
             << <<"maxResults", Num(c.max_results)>>,
                <<"startAt", Num(c.start_at)>>,
                <<"projectKey", Str(c.project_key)>> >>))

\* get_test_cycles up to its await: the pagination check, then the request.
BeginTestCycles(self, c) ==
    IF c.start_at % c.max_results # 0
    THEN Raise("ValueError")
    ELSE Send(ZephyrRequest(self, "testcycles",
                  << <<"maxResults", Num(c.max_results)>>,
                     <<"startAt", Num(c.start_at)>>,
                     <<"projectKey", Str(c.project_key)>> >>))

\* (mutant) get_status answering from what earlier calls have fetched
BeginStatusCached(self, status_id) ==
    LET f == FormatD(status_id)
    IN  IF f.ok
        THEN IF (self.zephyr_base_url \o "statuses/" \o f.s) \in history
             THEN [tag |-> "raise", err |-> Ok(Str("Pass")), opens |-> 0]
             ELSE Send(ZephyrRequest(self, "statuses/" \o f.s, <<>>))
        ELSE Raise(f.type)

\* get_status up to its await.
BeginStatus(self, status_id) ==
    LET f == FormatD(status_id)
    IN  IF f.ok THEN Send(ZephyrRequest(self, "statuses/" \o f.s, <<>>))
        ELSE Raise(f.type)

\* get_statuses up to its await.
BeginStatuses(self, status_type, c) ==
    Send(ZephyrRequest(self, "statuses",
        << <<"maxResults", Num(c.max_results)>> >>
        \o (IF status_type \in {Str("TEST_CASE"), Str("TEST_PLAN"), Str("TEST_CYCLE"),
                                Str("TEST_EXECUTION")}
            THEN << <<"statusType", status_type>> >> ELSE <<>>)))

\* get_test_executions up to its await.
BeginTestExecutions(self, test_cycle_key, c) ==
    IF ~QueryValueOk(test_cycle_key)
    THEN RaiseInSession("TypeError")
    ELSE Send(ZephyrRequest(self, "testexecutions",
                  << <<"testCycle", test_cycle_key>>,
                     <<"maxResults", Num(c.max_results)>> >>))

\* d.get(k): the value, None when the dict has no such key, AttributeError
\* when d has no method get.
DictGet(d, k) ==
    IF d.t = "obj"
    THEN Ok(IF k \in DOMAIN d.get THEN d.get[k] ELSE None)
    ELSE Err("AttributeError", 0, "")

\* cs.split(sep): the pieces of cs between the occurrences of sep.
RECURSIVE Split(_, _)
Split(cs, sep) ==
    IF \A i \in 1..Len(cs) : cs[i] # sep THEN <<cs>>
    ELSE LET i == CHOOSE i \in 1..Len(cs) :
                      cs[i] = sep /\ \A j \in 1..(i - 1) : cs[j] # sep
         IN  <<SubSeq(cs, 1, i - 1)>> \o Split(SubSeq(cs, i + 1, Len(cs)), sep)

\* (mutant) the name taken from the segment before the version
ExtractFromWrongSegment(test_execution_json) ==
    LET test_case == DictGet(test_execution_json, "testCase")
    IN  IF test_case.kind = "error" THEN test_case
        ELSE LET url == DictGet(test_case.value, "self")
             IN  IF url.kind = "error" THEN url
                 ELSE IF url.value.t # "chars" THEN Err("AttributeError", 0, "")
                 ELSE LET parts == Split(url.value.c, "/")
                      IN  IF Len(parts) < 3 THEN Err("IndexError", 0, "")
                          ELSE Ok(Tuple(<<Chars(parts[Len(parts) - 1]),
                                          Chars(parts[Len(parts)])>>))

\* extract_test_case_from_test_execution (a static method, no await):
\* url.split("/")[-3] and url.split("/")[-1] of the testCase.self URL.
extract_test_case_from_test_execution(test_execution_json) ==
    LET test_case == DictGet(test_execution_json, "testCase")
    IN  IF test_case.kind = "error" THEN test_case
        ELSE LET url == DictGet(test_case.value, "self")
             IN  IF url.kind = "error" THEN url
                 ELSE IF url.value.t # "chars" THEN Err("AttributeError", 0, "")
                 ELSE LET parts == Split(url.value.c, "/")
                      IN  IF Len(parts) < 3 THEN Err("IndexError", 0, "")
                          ELSE Ok(Tuple(<<Chars(parts[Len(parts) - 2]),
                                          Chars(parts[Len(parts)])>>))

\* A method that returns or raises `res` without awaiting anything.
Returns(res) == [tag |-> "return", err |-> res, opens |-> 0]

\* Method `method` of `self`, from its entry to its first await: the request
\* it sends, or the exception it raises before sending one.
Begin(self, method, arg, c) ==
    CASE method = "extract_test_case_from_test_execution" ->
            Returns(extract_test_case_from_test_execution(arg))
      [] method = "get_test_case" ->
            Send(ZephyrRequest(self, "testcases/" \o FormatStr(arg), <<>>))
      [] method = "get_test_case_steps" ->
            Send(ZephyrRequest(self, "testcases/" \o FormatStr(arg) \o "/teststeps", <<>>))
      [] method = "get_test_cycle" ->
            Send(ZephyrRequest(self, "testcycles/" \o FormatStr(arg), <<>>))
      [] method = "get_test_cycles" -> BeginTestCycles(self, c)
      [] method = "get_test_execution" ->
            Send(ZephyrRequest(self, "testexecutions/" \o FormatStr(arg), <<>>))
      [] method = "get_test_execution_steps" ->
            Send(ZephyrRequest(self, "testexecutions/" \o FormatStr(arg) \o "/teststeps", <<>>))
      [] method = "get_test_executions" -> BeginTestExecutions(self, arg, c)
      [] method = "get_user_name" -> BeginUserName(self, arg)
      [] method = "get_project" ->
            Send(ZephyrRequest(self, "projects/" \o FormatStr(arg), <<>>))
      [] method = "get_status" -> BeginStatus(self, arg)
      [] method = "get_statuses" -> BeginStatuses(self, arg, c)

\* TestCycle.__init__ (test_cycle.py): the wrapper holds the interface.
TestCycle(zapi_) == [zapi |-> zapi_]

\* obj.name: the attribute, or AttributeError when the object has none.
GetAttr(obj, name) ==
    IF name \in DOMAIN obj THEN [ok |-> TRUE, v |-> obj[name]]
    ELSE [ok |-> FALSE, type |-> "AttributeError"]

\* TestCycle.get_list_of_cycles up to its await: the pagination check, the
\* URL from self.zapi, the headers from self.zephyr_api_token, the request.
BeginListOfCycles(self, c) ==
    IF c.start_at % c.max_results # 0
    THEN Raise("ValueError")
    ELSE LET token == GetAttr(self, "zephyr_api_token")
         IN  IF ~token.ok THEN Raise(token.type)
             ELSE Send([url |-> self.zapi.zephyr_base_url \o "testcycles",
                        auth |-> [scheme |-> "Bearer", user |-> "",
                                  secret |-> FormatStr(token.v)],
                        params |-> << <<"maxResults", Num(c.max_results)>>,
                                      <<"startAt", Num(c.start_at)>>,
                                      <<"projectKey", Str(c.project_key)>> >>,
                        raise_for_status |-> TRUE])

\* The call expression zapi.op(arg, **kw): AttributeError when the class has
\* no such method, TypeError when a keyword names no parameter of it, and
\* otherwise the method up to its first await.  get_list_of_cycles is the
\* method of the TestCycle that wraps the interface.
BindAndBegin(c) ==
    IF c.op = "get_list_of_cycles" THEN BeginListOfCycles(TestCycle(c.self), c)
    ELSE IF c.op \notin Methods THEN Raise("AttributeError")
    ELSE IF ~(c.kw \subseteq ParamNames(c.op)) THEN Raise("TypeError")
    ELSE Begin(c.self, c.op, c.arg, c)

----------------------------------------------------------------------------
\* The upstream services: what a response to each request may be.

\* The keys the callers ask for.
TEST_CASE_KEY == "BLOCK-T21"
TEST_CYCLE_KEY == "BLOCK-R21"
TEST_EXECUTION_KEY == "BLOCK-E192"
ACCOUNT_ID == "abc123"

\* A reference object {"id": ..., "self": ...} of the Zephyr service.
Ref(kind, id) ==
    Obj(<<"id", "self">>,
        [id |-> Num(id), self |-> Str(ZEPHYR_BASE_URL \o kind \o "/" \o ToString(id))])

ProjectIds == {350001}
StatusIds == {3940035, 3940036}
PriorityIds == {6360096}

\* The owner of a test case or test cycle: unset, or an embedded user object.
OwnerObj ==
    Obj(<<"self", "accountId">>,
        [self |-> Str(JIRA_BASE_URL \o "user?accountId=" \o ACCOUNT_ID),
         accountId |-> Str(ACCOUNT_ID)])
Owners == {None, OwnerObj}

TestCyclePayloads(key) ==
    { Obj(<<"id", "key", "name", "project", "status", "folder", "owner">>,
          [id |-> Num(22355742), key |-> Str(key), name |-> Str("cycle"),
           project |-> Ref("projects", p), status |-> Ref("statuses", st),
           folder |-> None, owner |-> o])
      : p \in ProjectIds, st \in StatusIds, o \in Owners }

TestCasePayloads(key) ==
    { Obj(<<"id", "key", "name", "project", "priority", "status", "owner">>,
          [id |-> Num(1), key |-> Str(key), name |-> Str("case"),
           project |-> Ref("projects", p), priority |-> Ref("priorities", pr),
           status |-> Ref("statuses", st), owner |-> o])
      : p \in ProjectIds, pr \in PriorityIds, st \in StatusIds, o \in Owners }

TestExecutionPayloads(key) ==
    { Obj(<<"id", "key", "project", "testCase", "testExecutionStatus", "executedById",
            "assignedToId", "testCycle">>,
          [id |-> Num(2), key |-> Str(key), project |-> Ref("projects", p),
           testCase |-> Obj(<<"self", "id">>,
                            [self |-> Str(ZEPHYR_BASE_URL \o "testcases/" \o TEST_CASE_KEY
                                          \o "/versions/1"),
                             id |-> Num(1)]),
           testExecutionStatus |-> Ref("statuses", st),
           executedById |-> u, assignedToId |-> u,
           testCycle |-> Ref("testcycles", 22355742)])
      : p \in ProjectIds, st \in StatusIds, u \in {None, Str(ACCOUNT_ID)} }

\* A collection envelope {next, startAt, maxResults, total, isLast, values}.
Envelope(items) ==
    Obj(<<"next", "startAt", "maxResults", "total", "isLast", "values">>,
        [next |-> None, startAt |-> Num(0), maxResults |-> Num(DefaultMaxResults),
         total |-> Num(Len(items)), isLast |-> Bool(TRUE), values |-> List(items)])

\* An entry of the test cycle listing; the second kind has no name field.
CycleEntries ==
    { Obj(<<"id", "key", "name">>, [id |-> Num(1), key |-> Str("BLOCK-R1"), name |-> Str("a")]),
      Obj(<<"id", "key">>, [id |-> Num(2), key |-> Str("BLOCK-R2")]) }

RECURSIVE SeqsUpTo(_, _)
\* The sequences over S of length at most n.
SeqsUpTo(S, n) ==
    IF n = 0 THEN {<<>>}
    ELSE LET shorter == SeqsUpTo(S, n - 1)
         IN  shorter \cup {Append(q, x) : q \in shorter, x \in S}

StepEntry == Obj(<<"inline", "testCase">>, [inline |-> Str("step"), testCase |-> None])

\* The JSON bodies a successful response to the request of `method` may hold.
Bodies(method, c) ==
    CASE method = "get_test_case" -> TestCasePayloads(FormatStr(c.arg))
      [] method = "get_test_cycle" -> TestCyclePayloads(FormatStr(c.arg))
      [] method = "get_test_execution" -> TestExecutionPayloads(FormatStr(c.arg))
      [] method \in {"get_test_case_steps", "get_test_execution_steps"} ->
            {Envelope(<<>>), Envelope(<<StepEntry>>)}
      [] method = "get_test_executions" ->
            {Envelope(<<>>)} \cup {Envelope(<<e>>) : e \in TestExecutionPayloads(TEST_EXECUTION_KEY)}
      [] method \in {"get_test_cycles", "get_list_of_cycles"} ->
            {Envelope(q) : q \in SeqsUpTo(CycleEntries, MaxCycles)}
      [] method = "get_project" ->
            {Obj(<<"id", "key">>, [id |-> Num(p), key |-> Str("BLOCK")]) : p \in ProjectIds}
      [] method = "get_status" ->
            {Obj(<<"id", "name">>, [id |-> Num(3940035), name |-> Str(n)])
             : n \in {"Pass", "In Progress"}}
      [] method = "get_statuses" ->
            {Envelope(<<>>),
             Envelope(<<Obj(<<"id", "name">>, [id |-> Num(3940035), name |-> Str("Pass")])>>)}
      [] method = "get_user_name" ->
            {Obj(<<"accountId", "displayName">>,
                 [accountId |-> Str(ACCOUNT_ID), displayName |-> Str("Jane Doe")])}

\* The statuses a final response may have: success (200, or another 2xx) and
\* client or server error (aiohttp follows redirects itself).
SuccessStatuses == {200, 201}
ErrorStatuses == {404, 500}

\* A response: its status, its content type, its decoded JSON body and its
\* body text.  A success may carry a body that is not JSON.
Responses(method, c) ==
    { [status |-> st, content_type |-> "application/json", json |-> b, text |-> "json"]
      : st \in SuccessStatuses, b \in Bodies(method, c) }
    \cup { [status |-> st, content_type |-> "text/html", json |-> None, text |-> "<html>"]
           : st \in SuccessStatuses }
    \cup { [status |-> st, content_type |-> "application/json", json |-> None,
            text |-> "error body"] : st \in ErrorStatuses }

----------------------------------------------------------------------------
\* Methods, from the response to their return or raise.

\* ClientSession(raise_for_status=True): a response with an error status
\* raises ClientResponseError, which holds the status (and the reason
\* phrase), not the body.
\* (mutant) a session opened without raise_for_status=True
NeverRaisedForStatus(resp) == FALSE
RaisedForStatus(resp) == resp.status >= 400
ClientResponseError(resp) == Err("ClientResponseError", resp.status, "")

\* await response.json(): the decoded body, or ContentTypeError (a
\* ClientResponseError that holds the status) when the body is not JSON.
ReadJson(resp) ==
    IF resp.content_type = "application/json" THEN Ok(resp.json)
    ELSE Err("ContentTypeError", resp.status, "")

\* d[k] as the value a method returns, or the exception of the subscript.
Lookup(d, k) ==
    LET r == Subscript(d, k)
    IN  IF r.ok THEN Ok(r.v)
        ELSE Err(r.type, 0, IF r.type = "KeyError" THEN k ELSE "")

\* (await response.json())[k]
JsonField(resp, k) ==
    LET b == ReadJson(resp)
    IN  IF b.kind = "error" THEN b ELSE Lookup(b.value, k)

\* (mutant) a listing that returns the entries without their envelope
HandleJsonValues(resp) ==
    IF RaisedForStatus(resp) THEN ClientResponseError(resp)
    ELSE JsonField(resp, "values")

\* get_test_case, get_test_case_steps, get_test_execution,
\* get_test_execution_steps, get_test_executions, get_statuses and the
\* entity request of get_test_cycle: the decoded body.
HandleJson(resp) ==
    IF RaisedForStatus(resp) THEN ClientResponseError(resp)
    ELSE ReadJson(resp)

\* get_project: project["key"]
HandleProject(resp) ==
    IF RaisedForStatus(resp) THEN ClientResponseError(resp)
    ELSE JsonField(resp, "key")

\* get_status: status["name"]
HandleStatus(resp) ==
    IF RaisedForStatus(resp) THEN ClientResponseError(resp)
    ELSE JsonField(resp, "name")

\* (mutant) get_user_name returning the user object the service sent
HandleUserNameMerged(resp) ==
    IF resp.status = 200
    THEN ReadJson(resp)
    ELSE Err("ClientError", resp.status, resp.text)

\* get_user_name: the session does not raise for status; the method checks
\* for 200 itself and otherwise raises ClientError with the status and the
\* body text in its message.
HandleUserName(resp) ==
    IF resp.status = 200
    THEN JsonField(resp, "displayName")
    ELSE Err("ClientError", resp.status, resp.text)

\* query_keys = ["id", "key"]; query_keys.extend(cycle_keys)
QueryKeys(cycle_keys) ==
    <<"id", "key">>
    \o (IF cycle_keys = None THEN <<>>
        ELSE [i \in 1..Len(cycle_keys.items) |-> cycle_keys.items[i].s])

\* The keys of a dict comprehension over `keys`: each at its first place.
RECURSIVE FirstOccurrences(_)
FirstOccurrences(keys) ==
    IF keys = <<>> THEN <<>>
    ELSE LET front == FirstOccurrences(SubSeq(keys, 1, Len(keys) - 1))
             last == keys[Len(keys)]
         IN  IF \E i \in 1..Len(front) : front[i] = last THEN front
             ELSE Append(front, last)

\* (mutant) a listing that returns each cycle whole
ProjectWhole(cycle, query_keys) == cycle

\* {key: cycle[key] for key in query_keys}
Project(cycle, query_keys) ==
    Obj(FirstOccurrences(query_keys),
        [k \in {query_keys[i] : i \in 1..Len(query_keys)} |-> cycle.get[k]])

\* get_test_cycles after `test_cycles = test_cycles["values"]`: the check of
\* the query keys against the first cycle, then the projection of each.
ProjectCycles(test_cycles, query_keys) ==
    IF Len(test_cycles) = 0 THEN Err("IndexError", 0, "")
    ELSE IF \E i \in 1..Len(query_keys) : ~HasKey(test_cycles[1], query_keys[i])
    THEN LET i == CHOOSE i \in 1..Len(query_keys) :
                      /\ ~HasKey(test_cycles[1], query_keys[i])
                      /\ \A j \in 1..(i - 1) : HasKey(test_cycles[1], query_keys[j])
         IN  Err("KeyError", 0, query_keys[i])
    ELSE IF \E n \in 1..Len(test_cycles), i \in 1..Len(query_keys) :
                ~HasKey(test_cycles[n], query_keys[i])
    THEN LET n == CHOOSE n \in 1..Len(test_cycles) :
                      /\ \E i \in 1..Len(query_keys) : ~HasKey(test_cycles[n], query_keys[i])
                      /\ \A m \in 1..(n - 1), i \in 1..Len(query_keys) :
                             HasKey(test_cycles[m], query_keys[i])
             i == CHOOSE i \in 1..Len(query_keys) :
                      /\ ~HasKey(test_cycles[n], query_keys[i])
                      /\ \A j \in 1..(i - 1) : HasKey(test_cycles[n], query_keys[j])
         IN  Err("KeyError", 0, query_keys[i])
    ELSE Ok(List([n \in 1..Len(test_cycles) |-> Project(test_cycles[n], query_keys)]))

\* get_test_cycles: raise_for_status, then the method's own check for 200.
HandleTestCycles(resp, c) ==
    IF RaisedForStatus(resp) THEN ClientResponseError(resp)
    ELSE IF resp.status # 200 THEN Err("ClientError", resp.status, "")
    ELSE LET v == JsonField(resp, "values")
         IN  IF v.kind = "error" THEN v
             ELSE ProjectCycles(v.value.items, QueryKeys(c.cycle_keys))

\* What method `method` returns or raises once its response has arrived.
HandleResponse(method, resp, c) ==
    CASE method = "get_project" -> HandleProject(resp)
      [] method = "get_status" -> HandleStatus(resp)
      [] method = "get_user_name" -> HandleUserName(resp)
      [] method \in {"get_test_cycles", "get_list_of_cycles"} -> HandleTestCycles(resp, c)
      [] OTHER -> HandleJson(resp)

\* The methods that hold their response in `async with session.get(...) as
\* response`; get_test_case_steps awaits session.get and keeps the response.
ResponseContext(method) == method # "get_test_case_steps"

\* Leaving the `async with` of the response releases it.
AtResponseExit(method, n) == IF ResponseContext(method) THEN 0 ELSE n

\* (mutant) a session whose exit leaves its connections as they are
SessionLeftOpen(n) == n

\* Leaving `async with aiohttp.ClientSession(...)`, by return or by raise,
\* closes the session and with it every connection it still holds.
AtSessionExit(n) == 0

\* The call ends: it returns or raises `res`.
Finish(res, vals) == [tag |-> "finish", result |-> res, values |-> vals, opens |-> 0]

\* (mutant) the exception is caught and the payload so far is returned
Swallow(err, vals) == Finish(Ok(vals), vals)

\* An exception raised in an awaited method: nothing in the caller catches
\* it, so the call ends raising it.
Propagate(err, vals) == Finish(err, vals)

\* get_test_cycle, one line of 219-221:
\*     values[field] = await self.method(values[field][sub])
\* up to the await of `method`: the argument is read from values, then the
\* method runs to its request.
Resolve(c, vals, field, sub, method) ==
    LET ref == Lookup(vals, field)
    IN  IF ref.kind = "error" THEN Finish(ref, vals)
        ELSE LET id == Lookup(ref.value, sub)
             IN  IF id.kind = "error" THEN Finish(id, vals)
                 ELSE LET b == Begin(c.self, method, id.value, c)
                      IN  IF b.tag = "send"
                          THEN [tag |-> "send", req |-> b.req, frame |-> method,
                                values |-> vals, opens |-> b.opens]
                          ELSE [tag |-> "finish", result |-> b.err, values |-> vals,
                                opens |-> b.opens]

\* (mutant) a call that sends its request again when the attempt failed
AfterRetrying(c, fr, out, vals) ==
    IF out.kind = "error"
    THEN IF fr = c.op /\ out.status # 0
         THEN [tag |-> "send", req |-> Begin(c.self, c.op, c.arg, c).req, frame |-> fr,
               values |-> vals, opens |-> 1]
         ELSE Propagate(out, vals)
    ELSE IF c.op # "get_test_cycle" THEN Finish(out, vals)
    ELSE CASE fr = "get_test_cycle" ->
                Resolve(c, out.value, "project", "id", "get_project")
           [] fr = "get_project" ->
                Resolve(c, SetItem(vals, "project", out.value), "status", "id", "get_status")
           [] fr = "get_status" ->
                Resolve(c, SetItem(vals, "status", out.value), "owner", "accountId",
                        "get_user_name")
           [] fr = "get_user_name" ->
                LET v == SetItem(vals, "owner", out.value) IN Finish(Ok(v), v)

\* What the call does once the method of `fr` has returned or raised `out`:
\* an exception propagates to the caller; get_test_cycle stores the value and
\* goes on to its next reference field; any other call returns the value.
After(c, fr, out, vals) ==
    IF out.kind = "error" THEN Propagate(out, vals)
    ELSE IF c.op # "get_test_cycle" THEN Finish(out, vals)
    ELSE CASE fr = "get_test_cycle" ->
                Resolve(c, out.value, "project", "id", "get_project")
           [] fr = "get_project" ->
                Resolve(c, SetItem(vals, "project", out.value), "status", "id", "get_status")
           [] fr = "get_status" ->
                Resolve(c, SetItem(vals, "status", out.value), "owner", "accountId",
                        "get_user_name")
           [] fr = "get_user_name" ->
                LET v == SetItem(vals, "owner", out.value) IN Finish(Ok(v), v)

----------------------------------------------------------------------------
\* The callers.

\* Calls made on an interface directly: every entity retrieval without and
\* with a parse argument, the listings, the reference lookups, and the
\* methods the tests call (parse, get_steps_in_test_case, ...).
EntityOps == {"get_test_case", "get_test_cycle", "get_test_execution"}
KeyOf(op) ==
    CASE op = "get_test_cycle" -> TEST_CYCLE_KEY
      [] op = "get_test_execution" -> TEST_EXECUTION_KEY
      [] op = "get_test_execution_steps" -> TEST_EXECUTION_KEY
      [] op = "get_test_executions" -> TEST_CYCLE_KEY
      [] op = "list_test_executions" -> TEST_CYCLE_KEY
      [] OTHER -> TEST_CASE_KEY

AccountInputs ==
    {None, Str(ACCOUNT_ID), Obj(<<"accountId">>, [accountId |-> Str(ACCOUNT_ID)])}

IdInputs == 0..MaxId

\* The characters of the URL of the test cases, up to the name.
TestCasesUrl ==
    <<"h", "t", "t", "p", "s", ":", "/", "/", "a", "p", "i", ".", "z", "e",
    "p", "h", "y", "r", "s", "c", "a", "l", "e", ".", "s", "m", "a", "r",
    "t", "b", "e", "a", "r", ".", "c", "o", "m", "/", "v", "2", "/", "t",
    "e", "s", "t", "c", "a", "s", "e", "s", "/">>
VersionsPath == <<"/", "v", "e", "r", "s", "i", "o", "n", "s", "/">>

\* The names and versions in the URLs: 1..MaxSegmentLen characters.
Segments == SeqsUpTo({"T", "1", "2"}, MaxSegmentLen) \ {<<>>}

\* .../testcases/<name>/versions/<version>
TestCaseUrl(name, version) == TestCasesUrl \o name \o VersionsPath \o version

\* A test execution whose testCase is tc.
ExecutionWith(tc) ==
    Obj(<<"id", "key", "testCase">>,
        [id |-> Num(2), key |-> Str(TEST_EXECUTION_KEY), testCase |-> tc])

\* The test executions given to extract_test_case_from_test_execution: with
\* a test case URL of every name and version, with a URL of fewer segments,
\* and with no test case.
ExecutionInputs ==
    { ExecutionWith(Obj(<<"self", "id">>,
                        [self |-> Chars(u), id |-> Num(1)]))
      : u \in {TestCaseUrl(n, v) : n \in Segments, v \in Segments}
              \cup {<<"T", "1">>} }
    \cup {ExecutionWith(None)}
StartAts == 0..MaxStartAt
MaxResultsValues == (1..MaxMaxResults) \cup {DefaultMaxResults}
CycleKeyInputs == {None, List(<<Str("name")>>), List(<<Str("bogus")>>)}

Simple(self, op, arg) ==
    MkCall(NotCli, self, op, arg, {}, "unspecified", DefaultMaxResults, 0, None, FALSE)

DirectCalls(self) ==
    { Simple(self, op, Str(KeyOf(op))) : op \in EntityOps }
    \cup { MkCall(NotCli, self, op, Str(KeyOf(op)), {"parse"}, m, DefaultMaxResults, 0,
                  None, FALSE) : op \in EntityOps, m \in Modes }
    \cup { Simple(self, op, Str(KeyOf(op)))
           : op \in {"get_test_case_steps", "get_test_execution_steps",
                     "get_test_executions", "get_steps_in_test_case",
                     "list_test_executions", "get_list_of_statuses"} }
    \cup { MkCall(NotCli, self, "get_test_executions", Str(k), {"max_results"},
                  "unspecified", m, 0, None, FALSE)
           : k \in {TEST_CYCLE_KEY, TEST_CASE_KEY}, m \in MaxResultsValues }
    \cup { Simple(self, "get_user_name", a) : a \in AccountInputs }
    \cup { Simple(self, "extract_test_case_from_test_execution", e) : e \in ExecutionInputs }
    \cup { Simple(self, "parse", r) : r \in {None, Ref("statuses", 3940035)} }
    \cup { Simple(self, "get_project", Num(p)) : p \in ProjectIds \cup IdInputs }
    \cup { Simple(self, "get_status", Num(st)) : st \in StatusIds \cup IdInputs }
    \cup { Simple(self, "get_statuses", t) : t \in {None, Str("TEST_CYCLE")} }
    \cup { MkCall(NotCli, self, op, None, {}, "unspecified", m, st, ck, FALSE)
           : op \in {"get_test_cycles", "get_list_of_cycles"},
             m \in MaxResultsValues, st \in StartAts, ck \in CycleKeyInputs }

\* max_results of the command line function list_test_executions when no
\* keyword of that name reaches it.
CliListMaxResults == 5

\* The options argparse hands to the command line functions.
CliOptions ==
    { [cmd |-> cmd, key |-> KeyOf(cmd), parse |-> m, max |-> DefaultMaxResults,
       only_last |-> FALSE] : cmd \in EntityOps, m \in Modes }
    \cup { [cmd |-> "get_steps_in_test_case", key |-> TEST_CASE_KEY, parse |-> "raw",
            max |-> DefaultMaxResults, only_last |-> FALSE],
           [cmd |-> "get_user", key |-> ACCOUNT_ID, parse |-> "raw",
            max |-> DefaultMaxResults, only_last |-> FALSE] }
    \cup { [cmd |-> "list_test_executions", key |-> k, parse |-> m, max |-> mx,
            only_last |-> ol]
           : k \in {TEST_CYCLE_KEY, TEST_CASE_KEY}, m \in Modes,
             mx \in {DefaultMaxResults, MaxMaxResults}, ol \in BOOLEAN }

\* The method call each command line function makes on the interface `self`
\* that setup_zephyr_interface gave it.
CliMethodCall(o, env, self) ==
    LET cli == [env |-> env, opts |-> o]
    IN  CASE o.cmd \in EntityOps ->
                MkCall(cli, self, o.cmd, Str(o.key), {"parse"}, o.parse,
                       DefaultMaxResults, 0, None, FALSE)
          [] o.cmd = "get_steps_in_test_case" ->
                MkCall(cli, self, "get_steps_in_test_case", Str(o.key), {}, "unspecified",
                       DefaultMaxResults, 0, None, FALSE)
          [] o.cmd = "get_user" ->
                MkCall(cli, self, "get_user_name", Str(o.key), {}, "unspecified",
                       DefaultMaxResults, 0, None, FALSE)
          [] o.cmd = "list_test_executions" ->
                MkCall(cli, self, "list_test_executions", Str(o.key),
                       {"max_results", "only_last", "parse"}, o.parse,
                       CliListMaxResults, 0, None, o.only_last)

NoCall == Simple(None, "", None)

\* The status URLs among the requests of a call.
StatusUrls(reqs) ==
    { reqs[i].url : i \in { j \in 1..Len(reqs) :
                              \E id \in StatusIds :
                                  reqs[j].url = ZEPHYR_BASE_URL \o "statuses/" \o ToString(id) } }

\* The coroutines of the concurrent callers, and a coroutine that is not in
\* a call.
Tasks == 1..MaxTasks
IdleTask ==
    [call |-> NoCall, pc |-> "idle", frame |-> "", values |-> None, result |-> NoResult,
     requests |-> <<>>, responses |-> <<>>]

----------------------------------------------------------------------------
\* The state machine.

Init ==
    /\ zapi \in Interfaces
    /\ call = NoCall
    /\ pc = "idle"
    /\ frame = ""
    /\ values = None
    /\ result = NoResult
    /\ requests = <<>>
    /\ responses = <<>>
    /\ sessions = 0
    /\ opened = 0
    /\ printed = <<>>
    /\ unreleased = 0
    /\ history = {}
    /\ tasks = [t \in Tasks |-> IdleTask]

\* A new call `c` whose code, up to its first await, did `b`: it sent its
\* first request, or it raised.
Start(c, b) ==
    /\ call' = c
    /\ values' = None
    /\ responses' = <<>>
    /\ printed' = <<>>
    /\ opened' = b.opens
    /\ IF b.tag = "send"
       THEN /\ requests' = <<b.req>>
            /\ pc' = "waiting"
            /\ frame' = c.op
            /\ result' = NoResult
            /\ sessions' = 1
       ELSE /\ requests' = <<>>
            /\ pc' = "done"
            /\ frame' = ""
            /\ result' = b.err
            /\ sessions' = 0
    /\ unreleased' = 0
    /\ UNCHANGED <<zapi, history, tasks>>

\* A caller calls a method of the interface it constructed.
Invoke ==
    /\ pc = "idle"
    /\ \E c \in DirectCalls(zapi) : Start(c, BindAndBegin(c))

\* A command line process: setup_zephyr_interface, then the method call.
CliInvoke ==
    /\ pc = "idle"
    /\ \E env \in Envs, o \in CliOptions :
          LET su == setup_zephyr_interface(env)
          IN  IF su.ok
              THEN LET c == CliMethodCall(o, env, su.zapi) IN Start(c, BindAndBegin(c))
              ELSE Start(CliMethodCall(o, env, None),
                         [tag |-> "raise", err |-> su.err, opens |-> 0])

\* The response to the outstanding request arrives; the call runs on to its
\* next request, or returns or raises.  A command line function prints what
\* the method returned.
Receive ==
    /\ pc = "waiting"
    /\ \E resp \in Responses(frame, call) :
          LET out == HandleResponse(frame, resp, call)
              st == After(call, frame, out, values)
          IN  /\ responses' = Append(responses, resp)
              /\ values' = st.values
              /\ opened' = opened + st.opens
              /\ IF st.tag = "send"
                 THEN /\ requests' = Append(requests, st.req)
                      /\ frame' = st.frame
                      /\ pc' = "waiting"
                      /\ sessions' = 1
                      /\ UNCHANGED <<result, printed>>
                 ELSE /\ pc' = "done"
                      /\ frame' = ""
                      /\ result' = st.result
                      /\ sessions' = 0
                      /\ printed' = IF call.cli # NotCli /\ st.result.kind = "ok"
                                    THEN <<st.result.value>> ELSE <<>>
                      /\ UNCHANGED requests
              /\ unreleased' = AtSessionExit(AtResponseExit(frame, unreleased + 1))
    /\ UNCHANGED <<zapi, call, history, tasks>>

\* The caller has the result (or the process has exited); nothing of the
\* call is kept.
Return ==
    /\ pc = "done"
    /\ pc' = "idle"
    /\ call' = NoCall
    /\ frame' = ""
    /\ values' = None
    /\ result' = NoResult
    /\ requests' = <<>>
    /\ responses' = <<>>
    /\ printed' = <<>>
    /\ opened' = 0
    /\ history' = history \cup StatusUrls(requests)
    /\ UNCHANGED <<zapi, sessions, unreleased, tasks>>

Next == Invoke \/ CliInvoke \/ Receive \/ Return

Spec == Init /\ [][Next]_vars

----------------------------------------------------------------------------
\* Concurrent callers: coroutines of one event loop that call methods of the
\* same interface.  A coroutine runs without interruption from one network
\* await to the next; at an await any other coroutine may run.

\* The calls the concurrent callers make.
ConcurrentCalls(self) ==
    { Simple(self, "get_test_cycle", Str(TEST_CYCLE_KEY)),
      Simple(self, "get_user_name", Str(ACCOUNT_ID)) }
    \cup { Simple(self, "get_status", Num(st)) : st \in StatusIds }

\* The responses the concurrent callers receive: a success, with a JSON body
\* or without, or a server error.
ConcurrentResponses(method, c) == { r \in Responses(method, c) : r.status \in {200, 500} }

\* (mutant) the payload kept where every coroutine reads and writes it
SharedLocals(ts, t) == IF ts[1].values = None THEN ts[t].values ELSE ts[1].values

\* The local variable `values` of the method coroutine t runs: each
\* coroutine has its own frame.
FrameLocals(ts, t) == ts[t].values

\* Coroutine t calls a method and runs to its first await (or raises).
TaskInvoke(t) ==
    /\ tasks[t].pc = "idle"
    /\ \E c \in ConcurrentCalls(zapi) :
          LET b == BindAndBegin(c)
          IN  tasks' = [tasks EXCEPT ![t] =
                  IF b.tag = "send"
                  THEN [call |-> c, pc |-> "waiting", frame |-> c.op, values |-> None,
                        result |-> NoResult, requests |-> <<b.req>>, responses |-> <<>>]
                  ELSE [call |-> c, pc |-> "done", frame |-> "", values |-> None,
                        result |-> b.err, requests |-> <<>>, responses |-> <<>>]]
    /\ UNCHANGED <<zapi, call, pc, frame, values, result, requests, responses, sessions,
                   opened, printed, unreleased, history>>

\* The response coroutine t awaits arrives; t runs to its next await, or
\* returns or raises.
TaskReceive(t) ==
    /\ tasks[t].pc = "waiting"
    /\ \E resp \in ConcurrentResponses(tasks[t].frame, tasks[t].call) :
          LET me == tasks[t]
              out == HandleResponse(me.frame, resp, me.call)
              st == After(me.call, me.frame, out, FrameLocals(tasks, t))
          IN  tasks' = [tasks EXCEPT ![t] =
                  IF st.tag = "send"
                  THEN [me EXCEPT !.responses = Append(me.responses, resp),
                                  !.requests = Append(me.requests, st.req),
                                  !.frame = st.frame,
                                  !.values = st.values]
                  ELSE [me EXCEPT !.responses = Append(me.responses, resp),
                                  !.pc = "done",
                                  !.frame = "",
                                  !.values = st.values,
                                  !.result = st.result]]
    /\ UNCHANGED <<zapi, call, pc, frame, values, result, requests, responses, sessions,
                   opened, printed, unreleased, history>>

\* The caller of coroutine t has its result; the coroutine is gone.
TaskReturn(t) ==
    /\ tasks[t].pc = "done"
    /\ tasks' = [tasks EXCEPT ![t] = IdleTask]
    /\ UNCHANGED <<zapi, call, pc, frame, values, result, requests, responses, sessions,
                   opened, printed, unreleased, history>>

NextConcurrent == \E t \in Tasks : TaskInvoke(t) \/ TaskReceive(t) \/ TaskReturn(t)

\* The interface the coroutines share has a Zephyr token and a username,
\* and has a Jira token or none.
InitConcurrent ==
    /\ Init
    /\ zapi.zephyr_api_token # None
    /\ zapi.jira_username # None

SpecConcurrent == InitConcurrent /\ [][NextConcurrent]_vars

----------------------------------------------------------------------------
\* Properties.

\* Some response of the call carried a status that is not a success.
UpstreamFailed ==
    \E i \in 1..Len(responses) :
        \/ responses[i].status \notin SuccessStatuses
        \/ responses[i].content_type # "application/json"

\* The payload the upstream sent for the entity itself.
EntityPayload == responses[1].json

\* Exceptions that report a failed HTTP exchange.
TransportErrors == {"ClientResponseError", "ClientError"}

\* `new` has every key of `orig`, with the value it has in `orig`.
KeepsAll(orig, new) ==
    /\ new.t = "obj"
    /\ \A k \in DOMAIN orig.get : k \in DOMAIN new.get /\ new.get[k] = orig.get[k]

\* The fields of the returned payload whose value differs from the upstream's.
EnrichedFields ==
    { f \in DOMAIN EntityPayload.get :
        f \notin DOMAIN result.value.get \/ result.value.get[f] # EntityPayload.get[f] }

\* The raw retrievals: get_test_case and get_test_execution, and
\* get_test_cycle with parse="raw".
RawRetrieval(c) ==
    /\ c.cli = NotCli
    /\ c.op \in EntityOps
    /\ ModeOf(c) = (IF c.op = "get_test_cycle" THEN "raw" ELSE "unspecified")

\* C1: every raw-mode retrieval of an entity (get_test_case,
\* get_test_cycle with parse="raw", get_test_execution) that the upstream
\* answers returns exactly the JSON the upstream sent, reference fields
\* included.
C1_RawReturnsUpstreamJson ==
    (pc = "done" /\ RawRetrieval(call) /\ ~UpstreamFailed)
        => (Len(responses) = 1 /\ result = Ok(EntityPayload))

\* C2: every full-mode retrieval that the upstream answers returns the
\* payload with each enriched reference field an object that keeps every key
\* of the original reference with its value and adds fetched data.
C2_FullModeMergesReference ==
    (pc = "done" /\ call.op \in EntityOps /\ ModeOf(call) = "full" /\ ~UpstreamFailed)
        => /\ result.kind = "ok"
           /\ Len(responses) >= 1
           /\ \A f \in EnrichedFields :
                 /\ KeepsAll(EntityPayload.get[f], result.value.get[f])
                 /\ DOMAIN result.value.get[f].get # DOMAIN EntityPayload.get[f].get

\* C3: every simple-mode retrieval that the upstream answers returns the
\* payload with each enriched reference field a string, not an object.
C3_SimpleModeYieldsScalars ==
    (pc = "done" /\ call.op \in EntityOps /\ ModeOf(call) = "simple" /\ ~UpstreamFailed)
        => /\ result.kind = "ok"
           /\ Len(responses) >= 1
           /\ \A f \in EnrichedFields : result.value.get[f].t = "str"

\* C4: a None reference is no error and causes no request: get_user_name(None)
\* (on an interface with a Jira token) returns None without a request, and an
\* entity whose owner is None is returned with owner still None and no user
\* request issued.
C4_NoneReferencePassesThrough ==
    pc = "done" =>
        /\ (call.op = "get_user_name" /\ call.arg = None
               /\ call.self.jira_api_token # None)
              => (result = Ok(None) /\ requests = <<>>)
        /\ (/\ call.op \in EntityOps
            /\ Len(responses) >= 1
            /\ ~UpstreamFailed
            /\ HasKey(EntityPayload, "owner")
            /\ EntityPayload.get["owner"] = None)
              => /\ result.kind = "ok"
                 /\ result.value.get["owner"] = None
                 /\ \A i \in 1..Len(requests) : requests[i].auth.scheme # "Basic"

C6_NoPartialSuccess ==
    call.op = "get_test_cycle" =>
        /\ Len(requests) >= 2 =>
               requests[2].url = call.self.zephyr_base_url \o "projects/"
                                 \o ToString(EntityPayload.get["project"].get["id"].n)
        /\ Len(requests) >= 3 =>
               requests[3].url = call.self.zephyr_base_url \o "statuses/"
                                 \o ToString(EntityPayload.get["status"].get["id"].n)
        /\ Len(requests) >= 4 =>
               requests[4].url = call.self.jira_base_url \o "user"
        /\ \A i \in 2..Len(responses) :
              (responses[i].status \in ErrorStatuses \/ (i = 4 /\ responses[i].status # 200))
                  => /\ pc = "done"
                     /\ result.kind = "error"
                     /\ result.type \in TransportErrors
                     /\ result.status = responses[i].status
                     /\ Len(requests) = i

\* The status fetch of a get_test_cycle failed after the project was
\* resolved; the owner was never requested.
C6_Witness ==
    /\ pc = "done"
    /\ call.op = "get_test_cycle"
    /\ Len(responses) = 3
    /\ responses[2].status = 200
    /\ responses[3].status \in ErrorStatuses
    /\ Len(requests) = 3
    /\ HasKey(values, "project") /\ values.get["project"].t = "str"
    /\ result.kind = "error"

C8_NoJiraTokenIsValueError ==
    (pc # "idle" /\ call.self # None /\ call.self.jira_api_token = None) =>
        /\ \A i \in 1..Len(requests) : requests[i].auth.scheme # "Basic"
        /\ call.op = "get_user_name"
              => /\ pc = "done"
                 /\ result = Err("ValueError", 0, "")
                 /\ requests = <<>>
                 /\ opened = 0
        /\ (call.op = "get_test_cycle" /\ pc = "done" /\ Len(responses) = 3
               /\ ~UpstreamFailed /\ EntityPayload.get["owner"] # None)
              => (result = Err("ValueError", 0, "") /\ opened = 3)

\* get_user_name was called with an account id on an interface without a
\* Jira API token, and has raised.
C8_Witness ==
    /\ pc = "done"
    /\ call.op = "get_user_name"
    /\ call.arg = Str(ACCOUNT_ID)
    /\ call.self.jira_api_token = None
    /\ result.type = "ValueError"

\* A credential the call would use is absent: from the environment of a
\* command line call, from the interface of a direct one.
MissingCredential(c) ==
    IF c.cli # NotCli
    THEN \E v \in DOMAIN c.cli.env : c.cli.env[v] = None
    ELSE \/ c.self.zephyr_api_token = None
         \/ c.self.jira_api_token = None
         \/ c.self.jira_username = None

\* The call names a method of the class and passes arguments it accepts.
WellFormed(c) == c.op \in Methods /\ c.kw \subseteq ParamNames(c.op)

\* C9: with any of the three credentials absent, every operation fails with
\* a configuration error (ValueError) and no request is sent, for an interface
\* built by setup_zephyr_interface and for one constructed directly.
C9_MissingCredentialFailsFast ==
    (pc # "idle" /\ (call.cli # NotCli \/ WellFormed(call)) /\ MissingCredential(call))
        => /\ requests = <<>>
           /\ pc = "done"
           /\ result = Err("ValueError", 0, "")

\* C10: get_user_name given {"accountId": a} sends the query accountId = a,
\* as it does given a, and returns what it returns given a.
C10_UserFormsNormalizeIdentically ==
    (/\ pc = "done"
     /\ call.op = "get_user_name"
     /\ call.arg.t = "obj"
     /\ call.self.jira_api_token # None)
        => /\ Len(requests) = 1
           /\ requests[1] = JiraRequest(call.self, "user",
                                        << <<"accountId", call.arg.get["accountId"]>> >>)
           /\ Len(responses) = 1
           /\ result = HandleUserName(responses[1])

\* The Jira service answered the user request of a get_user_name call with
\* a user object.
UserResolved ==
    /\ pc = "done"
    /\ call.op = "get_user_name"
    /\ Len(responses) = 1
    /\ responses[1].status = 200
    /\ ~UpstreamFailed

\* C11 as stated: on success get_user_name returns an object that holds the
\* accountId it was given and the displayName the service resolved.
C11_UserNameReturnsMergedObject ==
    UserResolved
        => /\ result.kind = "ok"
           /\ result.value.t = "obj"
           /\ HasKey(result.value, "accountId")
           /\ result.value.get["accountId"] = call.arg
           /\ HasKey(result.value, "displayName")
           /\ result.value.get["displayName"] = responses[1].json.get["displayName"]

\* C11 (amended): on success get_user_name returns the resolved displayName,
\* a bare string; the command line prints that string, and get_test_cycle
\* stores it as the owner.
C11_UserNameReturnsDisplayName ==
    /\ UserResolved
          => /\ result = Ok(responses[1].json.get["displayName"])
             /\ result.value.t = "str"
             /\ call.cli # NotCli => printed = <<result.value>>
    /\ (/\ pc = "done"
        /\ call.op = "get_test_cycle"
        /\ Len(responses) = 4
        /\ responses[4].status = 200
        /\ ~UpstreamFailed)
          => /\ result.kind = "ok"
             /\ result.value.get["owner"] = responses[4].json.get["displayName"]

\* The command line call of get_user_name has printed the display name.
C11_Witness ==
    /\ UserResolved
    /\ call.cli # NotCli
    /\ result = Ok(Str("Jane Doe"))
    /\ printed = <<Str("Jane Doe")>>

\* C12 as stated: parse, given a reference object with a self URL, requests
\* that URL and returns an object that keeps every key of the reference with
\* its value and has every key of the fetched object.
C12_DereferenceMergesFetched ==
    (pc = "done" /\ call.op = "parse" /\ call.arg.t = "obj")
        => /\ Len(requests) = 1
           /\ requests[1].url = call.arg.get["self"].s
           /\ Len(responses) = 1
           /\ ~UpstreamFailed
                 => /\ result.kind = "ok"
                    /\ KeepsAll(call.arg, result.value)
                    /\ \A k \in DOMAIN responses[1].json.get : HasKey(result.value, k)

\* The URL of the entity a retrieval asks for.
EntityUrl(c) ==
    c.self.zephyr_base_url
    \o (CASE c.op = "get_test_case" -> "testcases/"
          [] c.op = "get_test_cycle" -> "testcycles/"
          [] c.op = "get_test_execution" -> "testexecutions/")
    \o FormatStr(c.arg)

\* The fields of a payload that hold a reference object.
ReferenceFields(payload) == { f \in DOMAIN payload.get : payload.get[f].t = "obj" }

\* The retrievals that resolve references: those asked for in full or simple
\* mode, and get_test_cycle called without a mode.
Enriching(c) ==
    \/ ModeOf(c) \in {"full", "simple"}
    \/ (c.op = "get_test_cycle" /\ ModeOf(c) = "unspecified")

\* C13 as stated: an entity retrieval (by an interface that exists) issues
\* the request for the entity first; each request is issued only when the
\* one before it has been answered; a raw-mode retrieval issues that one
\* request only, and an enriching retrieval that the upstream answers issues
\* one more request per reference field of the payload.
C13_SequentialChain ==
    (pc # "idle" /\ call.op \in EntityOps /\ call.self # None)
        => /\ Len(requests) >= 1
           /\ requests[1].url = EntityUrl(call)
           /\ Len(responses) <= Len(requests)
           /\ Len(requests) <= Len(responses) + 1
           /\ ModeOf(call) = "raw" => Len(requests) = 1
           /\ (pc = "done" /\ Enriching(call) /\ ~UpstreamFailed)
                 => Len(requests) = 1 + Cardinality(ReferenceFields(EntityPayload))

\* Response i of the call reported a failure: an error status, a body that
\* is not JSON, or a status other than 200 where the method demands 200.
FailedResponse(i) ==
    \/ responses[i].status \notin SuccessStatuses
    \/ responses[i].content_type # "application/json"
    \/ (requests[i].auth.scheme = "Basic" /\ responses[i].status # 200)
    \/ (call.op = "get_test_cycles" /\ responses[i].status # 200)

\* C14: within a call no two requests go to the same target, and a failed
\* response is the last thing the call receives: the call has ended with an
\* error and has issued no request after the one that failed.
C14_NoRetry ==
    /\ \A i, j \in 1..Len(requests) :
           (requests[i].url = requests[j].url /\ requests[i].params = requests[j].params)
               => i = j
    /\ \A i \in 1..Len(responses) :
           FailedResponse(i)
               => /\ pc = "done"
                  /\ result.kind = "error"
                  /\ Len(responses) = i
                  /\ Len(requests) = i

\* The project request of a get_test_cycle was answered with a server
\* error; the call has ended with that error after two requests.
C14_Witness ==
    /\ pc = "done"
    /\ call.op = "get_test_cycle"
    /\ Len(responses) = 2
    /\ responses[2].status = 500
    /\ Len(requests) = 2
    /\ result = Err("ClientResponseError", 500, "")

\* C15: when a call has returned or raised, no session and no response it
\* opened is still open; while it awaits a response, the one session of the
\* outstanding request is open and no earlier response is held.  Each
\* session the call opened served one request (or none, when the request was
\* rejected before it was sent).
C15_SessionsScopedToCall ==
    /\ pc \in {"idle", "done"} => (sessions = 0 /\ unreleased = 0)
    /\ pc = "waiting" => (sessions = 1 /\ unreleased = 0)
    /\ opened \in {Len(requests), Len(requests) + 1}

\* get_test_case_steps obtained a response whose body was not JSON and has
\* raised while reading it.
C15_Witness ==
    /\ pc = "done"
    /\ call.op = "get_test_case_steps"
    /\ Len(responses) = 1
    /\ responses[1].content_type # "application/json"
    /\ result = Err("ContentTypeError", 200, "")
    /\ opened = 1
    /\ sessions = 0

\* C17: no step changes the configuration of the interface, and a status
\* lookup sends its request whatever earlier calls have fetched: get_status
\* called on its own, and the status lookup inside get_test_cycle.
C17_NoCrossCallState ==
    [][ /\ zapi' = zapi
        /\ zapi \in Interfaces
        /\ (pc = "idle" /\ call'.op = "get_status")
              => /\ pc' = "waiting"
                 /\ requests' = <<ZephyrRequest(zapi, "statuses/" \o ToString(call'.arg.n),
                                                <<>>)>>
        /\ (call.op = "get_test_cycle" /\ frame = "get_project" /\ pc' = "waiting")
              => requests' = Append(requests,
                                    ZephyrRequest(call.self,
                                        "statuses/"
                                        \o ToString(EntityPayload.get["status"].get["id"].n),
                                        <<>>))
      ]_vars

\* get_status is awaiting the response to a request for a status that an
\* earlier call has already fetched.
C17_Witness ==
    /\ pc = "waiting"
    /\ call.op = "get_status"
    /\ Len(requests) = 1
    /\ requests[1].url \in history

\* The filter that names the parent of the executions asked for.
ParentFilter(key) == IF key = Str(TEST_CASE_KEY) THEN "testCase" ELSE "testCycle"

\* C18 as stated: a listing of test executions by parent key sends one
\* request to testexecutions whose query holds the key under the filter of
\* its kind (testCycle for a test cycle key, testCase for a test case key)
\* and the requested max_results.
C18_ListExecutionsFiltersByParent ==
    (/\ pc # "idle"
     /\ call.op \in {"get_test_executions", "list_test_executions"}
     /\ call.self # None)
        => /\ Len(requests) = 1
           /\ requests[1].url = call.self.zephyr_base_url \o "testexecutions"
           /\ \E i \in 1..Len(requests[1].params) :
                 requests[1].params[i] = <<ParentFilter(call.arg), call.arg>>
           /\ \E i \in 1..Len(requests[1].params) :
                 requests[1].params[i] = <<"maxResults", Num(call.max_results)>>

\* The listings of steps and of executions that the class defines.
ListingOps == {"get_test_case_steps", "get_test_execution_steps", "get_test_executions"}

RECURSIVE Replay(_, _, _, _, _)
Replay(c, fr, vals, resps, i) ==
    IF i > Len(resps) THEN NoResult
    ELSE LET st == After(c, fr, HandleResponse(fr, resps[i], c), vals)
         IN  IF st.tag = "send" THEN Replay(c, st.frame, st.values, resps, i + 1)
             ELSE st.result

\* The result of call c run alone against the responses resps.
RunAlone(c, resps) ==
    LET b == BindAndBegin(c)
    IN  IF b.tag = "send" THEN Replay(c, c.op, None, resps, 1) ELSE b.err

\* C16: however the coroutines interleave at their awaits, each call has the
\* result (or error) that it has when run alone against the responses it
\* received, and the interface the calls share is as it was constructed.
C16_ConcurrentCallsIndependent ==
    /\ zapi \in Interfaces
    /\ \A t \in Tasks :
          tasks[t].pc # "idle"
              => /\ tasks[t].call.self = zapi
                 /\ tasks[t].result = RunAlone(tasks[t].call, tasks[t].responses)

\* Two get_test_cycle calls were in flight together and were answered with
\* different payloads; the first has returned while the second still awaits
\* its owner.
C16_Witness ==
    /\ tasks[1].call.op = "get_test_cycle"
    /\ tasks[2].call.op = "get_test_cycle"
    /\ tasks[1].pc = "done"
    /\ tasks[1].result.kind = "ok"
    /\ tasks[2].pc = "waiting"
    /\ tasks[2].frame = "get_user_name"
    /\ tasks[1].responses[1] # tasks[2].responses[1]
    /\ tasks[1].responses[3] # tasks[2].responses[3]

\* The decimal digit of n, for n in 0..9.
Digit(n) ==
    CASE n = 0 -> "0" [] n = 1 -> "1" [] n = 2 -> "2" [] n = 3 -> "3" [] n = 4 -> "4"
      [] n = 5 -> "5" [] n = 6 -> "6" [] n = 7 -> "7" [] n = 8 -> "8" [] n = 9 -> "9"

\* The plain decimal rendering of a natural number: its digits, most
\* significant first, and nothing else.
RECURSIVE Decimal(_)
Decimal(n) == IF n < 10 THEN Digit(n) ELSE Decimal(n \div 10) \o Digit(n % 10)

\* The endpoint template and the designated field of each resolution helper.
HelperTemplate(op) == IF op = "get_status" THEN "statuses/" ELSE "projects/"
HelperField(op) == IF op = "get_status" THEN "name" ELSE "key"

PageReceived ==
    /\ pc = "done"
    /\ call.op = "get_test_cycles"
    /\ Len(responses) = 1
    /\ responses[1].status = 200
    /\ responses[1].content_type = "application/json"

\* The cycles of the page the upstream sent.
Page == responses[1].json.get["values"].items

\* The keys the caller of the listing asked for: id, key and its extra keys.
AskedKeys(c) ==
    {"id", "key"}
    \cup (IF c.cycle_keys = None THEN {}
          ELSE {c.cycle_keys.items[i].s : i \in 1..Len(c.cycle_keys.items)})

UpstreamSucceeded ==
    \A i \in 1..Len(responses) :
        responses[i].status = 200 /\ responses[i].content_type = "application/json"

\* C23 as stated: a command line call made with every credential set, whose
\* upstream succeeds, calls a method the interface has with arguments the
\* method accepts, and prints the result.
C23_CliCallsExistingOperation ==
    (pc = "done" /\ call.cli # NotCli /\ call.self # None /\ UpstreamSucceeded)
        => /\ call.op \in Methods
           /\ call.kw \subseteq ParamNames(call.op)
           /\ result.kind = "ok"
           /\ printed = <<result.value>>

\* C25 as stated: for a page with status 200, get_test_cycles returns the
\* list or raises KeyError naming a key asked for that some cycle lacks, and
\* nothing else; an empty page yields the empty list.
C25_ListingErrorsAreKeyErrors ==
    PageReceived
        => /\ \/ result.kind = "ok"
              \/ /\ result.kind = "error"
                 /\ result.type = "KeyError"
                 /\ result.text \in AskedKeys(call)
                 /\ \E n \in 1..Len(Page) : ~HasKey(Page[n], result.text)
           /\ Page = <<>> => result = Ok(List(<<>>))

\* C27 as stated: the command list test_executions passes the values of
\* --max, --only-last and --parse, and the key, on to the listing operation
\* of the interface.
C27_CliOptionsReachListing ==
    (/\ pc # "idle"
     /\ call.cli # NotCli
     /\ call.cli.opts.cmd = "list_test_executions"
     /\ call.self # None)
        => /\ call.arg = Str(call.cli.opts.key)
           /\ call.max_results = call.cli.opts.max
           /\ call.only_last = call.cli.opts.only_last
           /\ call.parse = call.cli.opts.parse

\* The call of ZephyrInterface.get_test_cycles with the arguments of call c.
AsGetTestCycles(c) == [c EXCEPT !.op = "get_test_cycles"]

\* C26 as stated: TestCycle.get_list_of_cycles sends the request that
\* get_test_cycles of the wrapped interface sends for the same arguments
\* (or none, where that sends none) and ends as it ends on the same
\* responses.
C26_ListOfCyclesEqualsGetTestCycles ==
    (pc # "idle" /\ call.op = "get_list_of_cycles")
        => LET b == BindAndBegin(AsGetTestCycles(call))
           IN  /\ requests = (IF b.tag = "send" THEN <<b.req>> ELSE <<>>)
               /\ result = RunAlone(AsGetTestCycles(call), responses)

\* C24: extract_test_case_from_test_execution, given a test execution whose
\* testCase.self is .../testcases/<name>/versions/<version>, returns the
\* pair (<name>, <version>); it sends no request and opens no session.
C24_ExtractsNameAndVersion ==
    (pc # "idle" /\ call.op = "extract_test_case_from_test_execution")
        => /\ pc = "done"
           /\ requests = <<>>
           /\ opened = 0
           /\ \A name \in Segments, version \in Segments :
                 (/\ call.arg.get["testCase"] # None
                  /\ call.arg.get["testCase"].get["self"]
                         = Chars(TestCaseUrl(name, version)))
                     => result = Ok(Tuple(<<Chars(name), Chars(version)>>))

\* The pair (T1, 2) was extracted from .../testcases/T1/versions/2.
C24_Witness ==
    /\ pc = "done"
    /\ call.op = "extract_test_case_from_test_execution"
    /\ call.arg.get["testCase"] # None
    /\ call.arg.get["testCase"].get["self"] = Chars(TestCaseUrl(<<"T", "1">>, <<"2">>))
    /\ result = Ok(Tuple(<<Chars(<<"T", "1">>), Chars(<<"2">>)>>))

====
